---- MODULE Spec2Model ----
(***************************************************************************)
(* The outbound HTTP egress guard of server/public/shared/httpservice:     *)
(* HTTPServiceImpl.MakeTransport, the allowHost and allowIP closures it    *)
(* hands to NewTransport, the live configuration they read through         *)
(* h.configService.Config(), and the dial function that calls them.        *)
(*                                                                         *)
(* Scale.  IP addresses are the numbers of Addrs (a 2-bit address space),  *)
(* a CIDR is written "<addr>/<prefix length>" with one decimal digit each, *)
(* and strings are sequences of one-character strings, so that splitting   *)
(* and parsing are computed character by character as the code does.       *)
(***************************************************************************)
EXTENDS Integers, Sequences, FiniteSets, TLC

(***************************************************************************)
(* Bounds                                                                  *)
(***************************************************************************)
\* Longest list of addresses one DNS lookup answers with.
MaxResolved == 2

Addrs == 0 .. 3
PrefixLens == 0 .. 2
AddrBits == Cardinality(PrefixLens) - 1

(***************************************************************************)
(* Pointers: a *T is <<>> (nil) or <<v>>.                                  *)
(***************************************************************************)
Nil == <<>>
Ptr(v) == <<v>>
IsNil(p) == p = <<>>
Deref(p) == p[1]

\* model.SafeDereference: the zero value (here the empty string) for nil.
SafeDereference(p) == IF IsNil(p) THEN <<>> ELSE Deref(p)

(***************************************************************************)
(* Strings                                                                 *)
(***************************************************************************)
\* unicode.IsSpace, on the characters the allow-lists of the model hold.
IsSpace(c) == c \in {" ", "\t", "\n", "\r"}

\* Variant of splitFields: of the whitespace characters only the blank
\* separates.
splitFieldsBlankOnly(c) == c = " " \/ c = ","

\* splitFields(c rune) bool
splitFields(c) == IsSpace(c) \/ c = ","

\* strings.FieldsFunc(s, splitFields): the maximal runs of characters that
\* are not separators, in order; `cur` is the run being read, `i` the index.
RECURSIVE FieldsFrom(_, _, _)
FieldsFrom(s, i, cur) ==
  IF i > Len(s)
  THEN IF cur = <<>> THEN <<>> ELSE <<cur>>
  ELSE IF splitFields(s[i])
       THEN IF cur = <<>>
            THEN FieldsFrom(s, i + 1, <<>>)
            ELSE <<cur>> \o FieldsFrom(s, i + 1, <<>>)
       ELSE FieldsFrom(s, i + 1, Append(cur, s[i]))

FieldsFunc(s) == FieldsFrom(s, 1, <<>>)

\* slices.Contains(fields, host)
SliceContains(fields, x) == \E i \in 1 .. Len(fields) : fields[i] = x

(***************************************************************************)
(* Addresses and CIDRs                                                     *)
(***************************************************************************)
Digits == {"0", "1", "2", "3", "4", "5", "6", "7", "8", "9"}

DigitVal(c) ==
  CASE c = "0" -> 0 [] c = "1" -> 1 [] c = "2" -> 2 [] c = "3" -> 3
    [] c = "4" -> 4 [] c = "5" -> 5 [] c = "6" -> 6 [] c = "7" -> 7
    [] c = "8" -> 8 [] c = "9" -> 9

RECURSIVE Pow2(_)
Pow2(n) == IF n = 0 THEN 1 ELSE 2 * Pow2(n - 1)

\* net.ParseCIDR(field): [ok, base, bits]; ok is FALSE for anything that is
\* not "<addr>/<len>" with addr an address and len at most the address width
\* (the counterpart of "10.0.0.0/33" or of a hostname).
ParseCIDR(f) ==
  IF /\ Len(f) = 3
     /\ f[1] \in Digits /\ DigitVal(f[1]) \in Addrs
     /\ f[2] = "/"
     /\ f[3] \in Digits /\ DigitVal(f[3]) \in PrefixLens
  THEN [ok |-> TRUE, base |-> DigitVal(f[1]), bits |-> DigitVal(f[3])]
  ELSE [ok |-> FALSE, base |-> 0, bits |-> 0]

\* (*net.IPNet).Contains(ip): ip and the base agree on the first `bits` bits.
IPNetContains(net, ip) ==
  ip \div Pow2(AddrBits - net.bits) = net.base \div Pow2(AddrBits - net.bits)

\* IsReservedIP(ip): the reserved ranges; here the lower half, "0/1".
ReservedRanges == {[ok |-> TRUE, base |-> 0, bits |-> 1]}
IsReservedIP(ip) == \E r \in ReservedRanges : IPNetContains(r, ip)

\* IsOwnIP(ip): the addresses of the host's interfaces.  One of them is
\* reserved, the other is not.
OwnAddrs == {1, 2}
IsOwnIP(ip) == ip \in OwnAddrs

(***************************************************************************)
(* Configuration                                                           *)
(***************************************************************************)
\* Values of ServiceSettings.AllowedUntrustedInternalConnections (*string).
AllowLists ==
  { <<>>,                                   \* ""
    <<"a">>,                                \* "a"        a hostname
    <<"a", " ", "2", "/", "2">>,            \* "a 2/2"    a hostname, then one address
    <<"0", "/", "9", ",", "0", "/", "1">> } \* "0/9,0/1"  a malformed range, then the reserved half

StrPtrs == {Nil} \cup {Ptr(s) : s \in AllowLists}
BoolPtrs == {Nil, Ptr(TRUE), Ptr(FALSE)}

\* model.Config, the two settings MakeTransport reads.
Configs ==
  [EnableInsecureOutgoingConnections : BoolPtrs,
   AllowedUntrustedInternalConnections : StrPtrs]

\* Hostnames a caller asks to connect to.
Hosts == {<<"a">>, <<"b">>}

\* Answers of net.LookupIP: distinct addresses, at most MaxResolved of them.
Answers ==
  {s \in UNION {[1 .. n -> Addrs] : n \in 1 .. MaxResolved} :
     \A i, j \in 1 .. Len(s) : i # j => s[i] # s[j]}

(***************************************************************************)
(* State                                                                   *)
(***************************************************************************)
VARIABLES
  config,     \* what h.configService.Config() returns now
  transport,  \* the *MattermostTransport of the last MakeTransport
  pc,         \* where the caller is
  mt,         \* the running MakeTransport call
  dial,       \* the running connection attempt
  ah,         \* the allowHost invocation of this attempt
  ai,         \* the latest allowIP invocation of this attempt
  allowedAtMake,  \* history: the allow-list setting when MakeTransport returned `transport`
  restrictSystemAdmin,  \* ExperimentalSettings.RestrictSystemAdmin of c.App.Config() now
  req         \* the running request of a license handler of api4

vars ==
  <<config, transport, pc, mt, dial, ah, ai, allowedAtMake,
    restrictSystemAdmin, req>>

\* No request of a license handler is running.  `gate` is history: what
\* the session held and what the configuration said when the handler
\* tested them.
NoRequest ==
  [handler |-> "-", at |-> "idle", hasPermission |-> FALSE, Err |-> "",
   written |-> "", audit |-> "-", log |-> <<>>, ops |-> <<>>,
   gate |-> [permission |-> "-", restricted |-> "-"]]

NoTransport ==
  [made |-> FALSE, insecure |-> FALSE, allowHost |-> "nil", allowIP |-> "nil",
   trustURLs |-> FALSE]

\* The zero http.Client: no transport, and the zero Timeout ("0"), which
\* means no timeout.
NoClient == [Transport |-> NoTransport, Timeout |-> "0"]

NoCall ==
  [trustURLs |-> FALSE, reads |-> <<>>, res |-> "-", prev |-> NoTransport,
   caller |-> "-", client |-> NoClient]
NoConn == [via |-> "-", ip |-> 0]
NoDial == [host |-> <<>>, ips |-> <<>>, idx |-> 0, conn |-> NoConn]
NoAllowHost == [reads |-> <<>>, cfg |-> Nil, ret |-> "-"]
\* The nil error: no format, no operand.
NoError == [text |-> "", ip |-> <<>>, wraps |-> FALSE]

NoAllowIP ==
  [ip |-> 0, ownErr |-> FALSE, reads |-> <<>>, cfg |-> Nil, ret |-> "-",
   err |-> NoError]

Init ==
  /\ config \in Configs
  /\ transport = NoTransport
  /\ pc = "idle"
  /\ mt = NoCall
  /\ dial = NoDial
  /\ ah = NoAllowHost
  /\ ai = NoAllowIP
  /\ allowedAtMake = Nil
  /\ restrictSystemAdmin = FALSE
  /\ req = NoRequest

(***************************************************************************)
(* The configuration source                                                *)
(***************************************************************************)
\* Variant of the read of the insecure flag: the service keeps the flag of
\* the transport it built last and answers with it.
ReadInsecureCached ==
  IF transport.made
  THEN Ptr(transport.insecure)
  ELSE config.EnableInsecureOutgoingConnections

\* h.configService.Config().ServiceSettings.EnableInsecureOutgoingConnections
ReadInsecure == config.EnableInsecureOutgoingConnections

\* Variant of the read of the allow-list: the closures use the setting as it
\* was when MakeTransport returned the transport.
ReadAllowedSnapshot == allowedAtMake

\* h.configService.Config().ServiceSettings.AllowedUntrustedInternalConnections
ReadAllowed == config.AllowedUntrustedInternalConnections

\* The writer publishes a whole new configuration; Config() returns it from
\* then on.  It may do so between any two steps of a caller.
ReplaceConfig(c) ==
  /\ c # config
  /\ config' = c
  /\ UNCHANGED <<transport, pc, mt, dial, ah, ai, allowedAtMake,
                 restrictSystemAdmin, req>>

(***************************************************************************)
(* MakeTransport                                                           *)
(***************************************************************************)
\* NewTransport(enableInsecureConnections, allowHost, allowIP)
NewTransport(insecure, allowHost, allowIP, trustURLs) ==
  [made |-> TRUE, insecure |-> insecure, allowHost |-> allowHost,
   allowIP |-> allowIP, trustURLs |-> trustURLs]

\* Variant of MakeTransport: the checks are attached whatever trustURLs is.
BuildTransportAlwaysChecked(trustURLs, insecure) ==
  NewTransport(insecure, "closure", "closure", trustURLs)

\* The rest of MakeTransport once `insecure` is known.
BuildTransport(trustURLs, insecure) ==
  IF trustURLs
  THEN NewTransport(insecure, "nil", "nil", trustURLs)
  ELSE NewTransport(insecure, "closure", "closure", trustURLs)

\* MakeTransport is entered, by `caller` ("-" for a call from outside the
\* service), and evaluates the left operand of &&: Config() is read and the
\* setting tested against nil.  On nil, insecure is false and the call
\* completes.
MakeTransportEnter(trustURLs, caller) ==
  /\ pc = "idle"
  /\ LET p == ReadInsecure IN
     IF IsNil(p)
     THEN /\ transport' = BuildTransport(trustURLs, FALSE)
          /\ mt' = [trustURLs |-> trustURLs, reads |-> <<p>>, res |-> "ok",
                    prev |-> transport, caller |-> caller, client |-> NoClient]
          /\ pc' = "mt_done"
     ELSE /\ mt' = [trustURLs |-> trustURLs, reads |-> <<p>>, res |-> "-",
                    prev |-> transport, caller |-> caller, client |-> NoClient]
          /\ pc' = "mt_deref"
          /\ UNCHANGED transport
  /\ UNCHANGED <<config, dial, ah, ai, allowedAtMake,
                 restrictSystemAdmin, req>>

\* MakeTransport(trustURLs) called on the service.
MakeTransportCall(trustURLs) == MakeTransportEnter(trustURLs, "-")

\* MakeClient(trustURLs), line 69: the Transport of the client is what
\* h.MakeTransport(trustURLs) returns.
MakeClientCall(trustURLs) == MakeTransportEnter(trustURLs, "MakeClient")

\* The right operand of &&: Config() is read again and the setting
\* dereferenced; a nil pointer panics.
MakeTransportDeref ==
  /\ pc = "mt_deref"
  /\ LET p == ReadInsecure IN
     IF IsNil(p)
     THEN /\ mt' = [mt EXCEPT !.reads = Append(@, p), !.res = "panic"]
          /\ UNCHANGED transport
     ELSE /\ transport' = BuildTransport(mt.trustURLs, Deref(p))
          /\ mt' = [mt EXCEPT !.reads = Append(@, p), !.res = "ok"]
  /\ pc' = "mt_done"
  /\ UNCHANGED <<config, dial, ah, ai, allowedAtMake,
                 restrictSystemAdmin, req>>

\* The timeout of every client the service makes: the package constant
\* RequestTimeout, stored in the service by MakeHTTPService.
RequestTimeout == "RequestTimeout"

\* Variant of the client of MakeClient: a trusted client gets no timeout.
NewClientTrustedUntimed(t) ==
  [Transport |-> t, Timeout |-> IF t.trustURLs THEN "0" ELSE RequestTimeout]

\* &http.Client{Transport: t, Timeout: h.RequestTimeout}
NewClient(t) == [Transport |-> t, Timeout |-> RequestTimeout]

\* MakeTransport returns (or its panic has unwound).  Returning to
\* MakeClient, the client is made of the transport; a panic unwinds
\* through MakeClient as well.
MakeTransportReturn ==
  /\ pc = "mt_done"
  /\ IF mt.caller = "MakeClient" /\ mt.res = "ok"
     THEN /\ pc' = "mc_done"
          /\ mt' = [mt EXCEPT !.client = NewClient(transport)]
     ELSE /\ pc' = "idle"
          /\ mt' = NoCall
  /\ allowedAtMake' = IF mt.res = "ok"
                      THEN config.AllowedUntrustedInternalConnections
                      ELSE allowedAtMake
  /\ UNCHANGED <<config, transport, dial, ah, ai, restrictSystemAdmin, req>>

\* MakeClient returns the client.
MakeClientReturn ==
  /\ pc = "mc_done"
  /\ pc' = "idle"
  /\ mt' = NoCall
  /\ UNCHANGED <<config, transport, dial, ah, ai, allowedAtMake,
                 restrictSystemAdmin, req>>

(***************************************************************************)
(* allowHost and allowIP                                                   *)
(***************************************************************************)
\* Variant of allowHost: the setting is compared whole, without splitting.
AllowHostMatchUnsplit(s, host) == s = host

\* Variant of allowHost: the fields that parse as a CIDR are left out of
\* the lookup.
AllowHostMatchHostnamesOnly(s, host) ==
  LET fields == FieldsFunc(s) IN
  \E i \in 1 .. Len(fields) : ~ParseCIDR(fields[i]).ok /\ fields[i] = host

\* Variant of allowHost: the lookup ignores letter case.
AllowHostMatchFold(s, host) ==
  LET Lower(w) == [k \in 1 .. Len(w) |-> IF w[k] = "A" THEN "a" ELSE w[k]]
      fields == FieldsFunc(s)
  IN \E i \in 1 .. Len(fields) : Lower(fields[i]) = Lower(host)

\* allowHost, line 85: the dereferenced setting split into fields, and the
\* host looked up among them.
AllowHostMatch(s, host) == SliceContains(FieldsFunc(s), host)

\* Variant of the loop of allowIP: a field that does not parse as a CIDR
\* ends the loop without the fields after it being tried.
RECURSIVE AllowedLoopStopsAtMalformed(_, _, _)
AllowedLoopStopsAtMalformed(fields, i, ip) ==
  IF i > Len(fields)
  THEN FALSE
  ELSE LET r == ParseCIDR(fields[i]) IN
       IF ~r.ok
       THEN FALSE
       ELSE IF IPNetContains(r, ip)
       THEN TRUE
       ELSE AllowedLoopStopsAtMalformed(fields, i + 1, ip)

\* The loop of allowIP over the fields: the first field that parses as a
\* CIDR and contains ip ends it.
RECURSIVE AllowedLoop(_, _, _)
AllowedLoop(fields, i, ip) ==
  IF i > Len(fields)
  THEN FALSE
  ELSE LET r == ParseCIDR(fields[i]) IN
       IF r.ok /\ IPNetContains(r, ip)
       THEN TRUE
       ELSE AllowedLoop(fields, i + 1, ip)

\* Variant of allowIP: the error of IsOwnIP is ignored (ownIP is taken as
\* false), so the check fails open.
AllowIPFailOpen(ip, ownErr) ==
  LET reservedIP == IsReservedIP(ip)
      ownIP == ~ownErr /\ IsOwnIP(ip)
  IN IF ~reservedIP /\ ~ownIP
     THEN [ret |-> "nil", reads |-> <<>>]
     ELSE LET p == ReadAllowed IN
          IF AllowedLoop(FieldsFunc(SafeDereference(p)), 1, ip)
          THEN [ret |-> "nil", reads |-> <<p>>]
          ELSE IF reservedIP
          THEN [ret |-> "errReserved", reads |-> <<p>>]
          ELSE [ret |-> "errSelf", reads |-> <<p>>]

\* Variant of allowIP: any entry that parses as a CIDR accepts the address,
\* whether or not it contains it.
AllowIPAnyRange(ip, ownErr) ==
  LET reservedIP == IsReservedIP(ip)
      ownIP == IsOwnIP(ip)
  IN IF ownErr
     THEN [ret |-> "errOwnIP", reads |-> <<>>]
     ELSE IF ~reservedIP /\ ~ownIP
     THEN [ret |-> "nil", reads |-> <<>>]
     ELSE LET p == ReadAllowed
              fields == FieldsFunc(SafeDereference(p))
          IN IF \E i \in 1 .. Len(fields) : ParseCIDR(fields[i]).ok
             THEN [ret |-> "nil", reads |-> <<p>>]
             ELSE IF reservedIP
             THEN [ret |-> "errReserved", reads |-> <<p>>]
             ELSE [ret |-> "errSelf", reads |-> <<p>>]

\* Variant of allowIP: a reserved address is rejected before the allow-list
\* is consulted.
AllowIPReservedFirst(ip, ownErr) ==
  LET reservedIP == IsReservedIP(ip)
      ownIP == IsOwnIP(ip)
  IN IF ownErr
     THEN [ret |-> "errOwnIP", reads |-> <<>>]
     ELSE IF ~reservedIP /\ ~ownIP
     THEN [ret |-> "nil", reads |-> <<>>]
     ELSE IF reservedIP
     THEN [ret |-> "errReserved", reads |-> <<>>]
     ELSE LET p == ReadAllowed IN
          IF AllowedLoop(FieldsFunc(SafeDereference(p)), 1, ip)
          THEN [ret |-> "nil", reads |-> <<p>>]
          ELSE [ret |-> "errSelf", reads |-> <<p>>]

\* Variant of allowIP: no early return for an address that is neither
\* reserved nor own; it goes through the allow-list like the others.
AllowIPNoShortcut(ip, ownErr) ==
  LET reservedIP == IsReservedIP(ip)
  IN IF ownErr
     THEN [ret |-> "errOwnIP", reads |-> <<>>]
     ELSE LET p == ReadAllowed IN
          IF AllowedLoop(FieldsFunc(SafeDereference(p)), 1, ip)
          THEN [ret |-> "nil", reads |-> <<p>>]
          ELSE IF reservedIP
          THEN [ret |-> "errReserved", reads |-> <<p>>]
          ELSE [ret |-> "errSelf", reads |-> <<p>>]

\* Variant of allowIP: the denial of an uncovered address tests ownIP
\* first, so an address that is reserved and own is reported as own.
AllowIPSelfFirst(ip, ownErr) ==
  LET reservedIP == IsReservedIP(ip)
      ownIP == IsOwnIP(ip)
  IN IF ownErr
     THEN [ret |-> "errOwnIP", reads |-> <<>>]
     ELSE IF ~reservedIP /\ ~ownIP
     THEN [ret |-> "nil", reads |-> <<>>]
     ELSE LET p == ReadAllowed IN
          IF AllowedLoop(FieldsFunc(SafeDereference(p)), 1, ip)
          THEN [ret |-> "nil", reads |-> <<p>>]
          ELSE IF ownIP
          THEN [ret |-> "errSelf", reads |-> <<p>>]
          ELSE [ret |-> "errReserved", reads |-> <<p>>]

\* Variant of allowIP: once an address of an attempt has been denied, the
\* addresses that follow in the attempt are denied without being examined.
AllowIPSticky(ip, ownErr) ==
  LET reservedIP == IsReservedIP(ip)
      ownIP == IsOwnIP(ip)
  IN IF dial.idx > 1
     THEN [ret |-> "errReserved", reads |-> <<>>]
     ELSE IF ownErr
     THEN [ret |-> "errOwnIP", reads |-> <<>>]
     ELSE IF ~reservedIP /\ ~ownIP
     THEN [ret |-> "nil", reads |-> <<>>]
     ELSE LET p == ReadAllowed IN
          IF AllowedLoop(FieldsFunc(SafeDereference(p)), 1, ip)
          THEN [ret |-> "nil", reads |-> <<p>>]
          ELSE IF reservedIP
          THEN [ret |-> "errReserved", reads |-> <<p>>]
          ELSE [ret |-> "errSelf", reads |-> <<p>>]

\* Variant of allowIP: with insecure outgoing connections enabled, every
\* address is allowed.
AllowIPInsecureSkips(ip, ownErr) ==
  LET reservedIP == IsReservedIP(ip)
      ownIP == IsOwnIP(ip)
  IN IF transport.insecure
     THEN [ret |-> "nil", reads |-> <<>>]
     ELSE IF ownErr
     THEN [ret |-> "errOwnIP", reads |-> <<>>]
     ELSE IF ~reservedIP /\ ~ownIP
     THEN [ret |-> "nil", reads |-> <<>>]
     ELSE LET p == ReadAllowed IN
          IF AllowedLoop(FieldsFunc(SafeDereference(p)), 1, ip)
          THEN [ret |-> "nil", reads |-> <<p>>]
          ELSE IF reservedIP
          THEN [ret |-> "errReserved", reads |-> <<p>>]
          ELSE [ret |-> "errSelf", reads |-> <<p>>]

\* allowIP(ip), with ownErr the error of IsOwnIP: what it returns, and the
\* values of the allow-list setting it read on the way.
AllowIP(ip, ownErr) ==
  LET reservedIP == IsReservedIP(ip)
      ownIP == IsOwnIP(ip)
  IN IF ownErr
     THEN [ret |-> "errOwnIP", reads |-> <<>>]
     ELSE IF ~reservedIP /\ ~ownIP
     THEN [ret |-> "nil", reads |-> <<>>]
     ELSE LET p == ReadAllowed IN
          IF AllowedLoop(FieldsFunc(SafeDereference(p)), 1, ip)
          THEN [ret |-> "nil", reads |-> <<p>>]
          ELSE IF reservedIP
          THEN [ret |-> "errReserved", reads |-> <<p>>]
          ELSE [ret |-> "errSelf", reads |-> <<p>>]

\* Variant of the errors of allowIP: the self-assigned denial does not say
\* which address it is about.
ErrorOfSelfUnnamed(ret, ip) ==
  CASE ret = "errOwnIP" ->
         [text |-> "unable to determine if IP is own IP: %w", ip |-> <<>>,
          wraps |-> TRUE]
    [] ret = "errReserved" ->
         [text |-> "IP %s is in a reserved range and not in AllowedUntrustedInternalConnections",
          ip |-> <<ip>>, wraps |-> FALSE]
    [] ret = "errSelf" ->
         [text |-> "IP is a self-assigned IP and not in AllowedUntrustedInternalConnections",
          ip |-> <<>>, wraps |-> FALSE]
    [] OTHER -> NoError

\* The error value allowIP returns, lines 94, 110 and 112: the format of
\* fmt.Errorf, the address handed to its %s if it has one, and whether the
\* error of IsOwnIP is wrapped by %w.  A nil return is the nil error.
ErrorOf(ret, ip) ==
  CASE ret = "errOwnIP" ->
         [text |-> "unable to determine if IP is own IP: %w", ip |-> <<>>,
          wraps |-> TRUE]
    [] ret = "errReserved" ->
         [text |-> "IP %s is in a reserved range and not in AllowedUntrustedInternalConnections",
          ip |-> <<ip>>, wraps |-> FALSE]
    [] ret = "errSelf" ->
         [text |-> "IP %s is a self-assigned IP and not in AllowedUntrustedInternalConnections",
          ip |-> <<ip>>, wraps |-> FALSE]
    [] OTHER -> NoError

(***************************************************************************)
(* A connection attempt through the transport                              *)
(***************************************************************************)
\* The dial function is entered for a host.  With a host check it calls
\* allowHost first; without one it goes on to resolve.
DialCall(host) ==
  /\ pc = "idle"
  /\ transport.made
  /\ dial' = [NoDial EXCEPT !.host = host]
  /\ pc' = IF transport.allowHost = "nil" THEN "resolve" ELSE "ah_test"
  /\ UNCHANGED <<config, transport, mt, ah, ai, allowedAtMake,
                 restrictSystemAdmin, req>>

\* allowHost, line 82: Config() is read and the setting tested against nil.
AllowHostTest ==
  /\ pc = "ah_test"
  /\ LET p == ReadAllowed IN
     IF IsNil(p)
     THEN /\ ah' = [reads |-> <<p>>, ret |-> "false",
                    cfg |-> config.AllowedUntrustedInternalConnections]
          /\ pc' = "ah_ret"
     ELSE /\ ah' = [reads |-> <<p>>, ret |-> "-", cfg |-> Nil]
          /\ pc' = "ah_deref"
  /\ UNCHANGED <<config, transport, mt, dial, ai, allowedAtMake,
                 restrictSystemAdmin, req>>

\* allowHost, line 85: Config() is read again and the setting dereferenced; a
\* nil pointer panics.
AllowHostDeref ==
  /\ pc = "ah_deref"
  /\ LET p == ReadAllowed IN
     ah' = [reads |-> Append(ah.reads, p),
            cfg |-> config.AllowedUntrustedInternalConnections,
            ret |-> IF IsNil(p) THEN "panic"
                    ELSE IF AllowHostMatch(Deref(p), dial.host) THEN "true"
                    ELSE "false"]
  /\ pc' = "ah_ret"
  /\ UNCHANGED <<config, transport, mt, dial, ai, allowedAtMake,
                 restrictSystemAdmin, req>>

\* allowHost has returned: the dial function keeps its answer only.  A panic
\* ends the attempt.
HostChecked ==
  /\ pc = "ah_ret"
  /\ ah' = [reads |-> <<>>, cfg |-> Nil, ret |-> ah.ret]
  /\ IF ah.ret = "panic"
     THEN /\ dial' = [dial EXCEPT !.conn = [via |-> "panic", ip |-> 0]]
          /\ pc' = "dial_done"
     ELSE /\ pc' = "resolve"
          /\ UNCHANGED dial
  /\ UNCHANGED <<config, transport, mt, ai, allowedAtMake,
                 restrictSystemAdmin, req>>

\* The host is resolved.  A trusted host, or a transport without checks, is
\* connected to without any IP check; otherwise the answers are checked in
\* order.
Resolve(ips) ==
  /\ pc = "resolve"
  /\ IF ah.ret = "true" \/ transport.allowIP = "nil"
     THEN /\ dial' = [dial EXCEPT !.ips = ips, !.idx = 1,
                        !.conn = [via |-> IF ah.ret = "true" THEN "host" ELSE "unchecked",
                                  ip |-> ips[1]]]
          /\ pc' = "dial_done"
     ELSE /\ dial' = [dial EXCEPT !.ips = ips, !.idx = 1]
          /\ pc' = "ip_call"
  /\ UNCHANGED <<config, transport, mt, ah, ai, allowedAtMake,
                 restrictSystemAdmin, req>>

\* allowIP is called on the candidate address and returns.
AllowIPCall(ownErr) ==
  /\ pc = "ip_call"
  /\ LET ip == dial.ips[dial.idx]
         r == AllowIP(ip, ownErr)
     IN ai' = [ip |-> ip, ownErr |-> ownErr, reads |-> r.reads,
               cfg |-> config.AllowedUntrustedInternalConnections, ret |-> r.ret,
               err |-> ErrorOf(r.ret, ip)]
  /\ pc' = "ip_ret"
  /\ UNCHANGED <<config, transport, mt, dial, ah, allowedAtMake,
                 restrictSystemAdmin, req>>

\* The address was allowed: it is the one dialed.
DialConnect ==
  /\ pc = "ip_ret"
  /\ ai.ret = "nil"
  /\ dial' = [dial EXCEPT !.conn = [via |-> "ip", ip |-> ai.ip]]
  /\ ai' = NoAllowIP
  /\ pc' = "dial_done"
  /\ UNCHANGED <<config, transport, mt, ah, allowedAtMake,
                 restrictSystemAdmin, req>>

\* The address was denied: the next one is tried, and after the last one the
\* attempt fails without a connection.
DialNext ==
  /\ pc = "ip_ret"
  /\ ai.ret # "nil"
  /\ IF dial.idx < Len(dial.ips)
     THEN /\ dial' = [dial EXCEPT !.idx = @ + 1]
          /\ pc' = "ip_call"
     ELSE /\ dial' = [dial EXCEPT !.conn = [via |-> "forbidden", ip |-> 0]]
          /\ pc' = "dial_done"
  /\ ai' = NoAllowIP
  /\ UNCHANGED <<config, transport, mt, ah, allowedAtMake,
                 restrictSystemAdmin, req>>

DialReturn ==
  /\ pc = "dial_done"
  /\ pc' = "idle"
  /\ dial' = NoDial
  /\ ah' = NoAllowHost
  /\ UNCHANGED <<config, transport, mt, ai, allowedAtMake,
                 restrictSystemAdmin, req>>

(***************************************************************************)
(* Specification                                                           *)
(***************************************************************************)
Next ==
  \/ \E c \in Configs : ReplaceConfig(c)
  \/ \E t \in BOOLEAN : MakeTransportCall(t)
  \/ MakeTransportDeref
  \/ MakeTransportReturn
  \/ \E t \in BOOLEAN : MakeClientCall(t)
  \/ MakeClientReturn
  \/ \E h \in Hosts : DialCall(h)
  \/ AllowHostTest
  \/ AllowHostDeref
  \/ HostChecked
  \/ \E ips \in Answers : Resolve(ips)
  \/ \E e \in BOOLEAN : AllowIPCall(e)
  \/ DialConnect
  \/ DialNext
  \/ DialReturn

Spec == Init /\ [][Next]_vars

(***************************************************************************)
(* The checks over every short allow-list                                  *)
(*                                                                         *)
(* A second specification, for what allowHost and allowIP make of the      *)
(* allow-list string: the configuration is fixed, its allow-list nil or    *)
(* any string of at most MaxLen characters of Chars (or one of AllowLists),*)
(* and an untrusted transport dials the hosts of ProbeHosts, each answer   *)
(* being one address.                                                      *)
(***************************************************************************)
MaxLen == 3

\* A letter in both cases, a wildcard character, a blank, a tab, a comma,
\* and what the CIDRs of the model are written with.
Chars == {"a", "A", "*", " ", "\t", ",", "2", "/"}

RECURSIVE StringsOfLen(_)
StringsOfLen(n) ==
  IF n = 0
  THEN {<<>>}
  ELSE {Append(w, c) : w \in StringsOfLen(n - 1), c \in Chars}

ShortStrings == UNION {StringsOfLen(n) : n \in 0 .. MaxLen}

\* Hosts to dial: a name, the name in the other case, a name it is a proper
\* prefix of, and a host written like a CIDR.
ProbeHosts == {<<"a">>, <<"A">>, <<"a", "a">>, <<"2", "/", "2">>}

InitLists ==
  /\ config \in [EnableInsecureOutgoingConnections : {Nil},
                  AllowedUntrustedInternalConnections :
                    {Nil} \cup {Ptr(w) : w \in ShortStrings \cup AllowLists}]
  /\ transport = NoTransport
  /\ pc = "idle"
  /\ mt = NoCall
  /\ dial = NoDial
  /\ ah = NoAllowHost
  /\ ai = NoAllowIP
  /\ allowedAtMake = Nil
  /\ restrictSystemAdmin = FALSE
  /\ req = NoRequest

NextLists ==
  \/ MakeTransportCall(FALSE)
  \/ MakeTransportReturn
  \/ \E h \in ProbeHosts : DialCall(h)
  \/ AllowHostTest
  \/ AllowHostDeref
  \/ HostChecked
  \/ \E ip \in Addrs : Resolve(<<ip>>)
  \/ \E e \in BOOLEAN : AllowIPCall(e)
  \/ DialConnect
  \/ DialNext
  \/ DialReturn

SpecLists == InitLists /\ [][NextLists]_vars

(***************************************************************************)
(* The license handlers of api4                                            *)
(*                                                                         *)
(* addLicense, removeLicense, requestTrialLicense and requestRenewalLink:  *)
(* one request at a time runs from its audit record to its return, while   *)
(* the configuration may be replaced between any two of its steps.  What   *)
(* the handlers call outside license.go answers nondeterministically.      *)
(***************************************************************************)
httpVars == <<config, transport, pc, mt, dial, ah, ai, allowedAtMake>>

Handlers == {"addLicense", "removeLicense", "requestTrialLicense", "requestRenewalLink"}

\* The c.Err that c.SetPermissionError leaves.
PermissionError == "api.context.permissions.app_error"

\* Variant of the test of RestrictSystemAdmin: the setting is not looked at.
RestrictedAdminNever == FALSE

\* *c.App.Config().ExperimentalSettings.RestrictSystemAdmin
RestrictedAdmin == restrictSystemAdmin

\* The configuration is replaced by one with another RestrictSystemAdmin.
ReplaceRestrictSystemAdmin(b) ==
  /\ b # restrictSystemAdmin
  /\ restrictSystemAdmin' = b
  /\ UNCHANGED req
  /\ UNCHANGED httpVars

\* A handler is entered for a session that holds
\* PermissionManageLicenseInformation or does not: the audit record is made
\* with audit.Fail and the attempt is logged.
HandlerEnter(h, hasPermission) ==
  /\ req.at = "idle"
  /\ req' = [NoRequest EXCEPT !.handler = h, !.at = "permission",
               !.hasPermission = hasPermission, !.audit = "fail",
               !.log = <<"attempt">>]
  /\ UNCHANGED restrictSystemAdmin
  /\ UNCHANGED httpVars

\* if !c.App.SessionHasPermissionTo(session, PermissionManageLicenseInformation)
CheckPermission ==
  /\ req.at = "permission"
  /\ IF ~req.hasPermission
     THEN req' = [req EXCEPT !.Err = PermissionError, !.at = "return",
                    !.gate.permission = "no"]
     ELSE req' = [req EXCEPT !.at = "restricted", !.gate.permission = "yes"]
  /\ UNCHANGED restrictSystemAdmin
  /\ UNCHANGED httpVars

\* if *c.App.Config().ExperimentalSettings.RestrictSystemAdmin
CheckRestrictSystemAdmin ==
  /\ req.at = "restricted"
  /\ LET was == IF restrictSystemAdmin THEN "yes" ELSE "no" IN
     IF RestrictedAdmin
     THEN req' = [req EXCEPT !.Err = "api.restricted_system_admin",
                    !.at = "return", !.gate.restricted = was]
     ELSE req' = [req EXCEPT !.at = "validate", !.gate.restricted = was]
  /\ UNCHANGED restrictSystemAdmin
  /\ UNCHANGED httpVars

\* How what a handler does between the two tests and its license operation
\* can end: "ok", "form" (addLicense answers 400 through http.Error and sets
\* no c.Err), or the id of the error put in c.Err.
ValidationOutcomes(h) ==
  CASE h = "addLicense" ->
         {"ok", "form",
          "api.license.add_license.no_file.app_error",
          "api.license.add_license.array.app_error",
          "api.license.add_license.open.app_error",
          "LicenseFromBytes",
          "api.license.upgrade_needed.app_error",
          "api.license.request-trial.can-start-trial.not-allowed"}
    [] h = "requestTrialLicense" ->
         {"ok",
          "api.license.upgrade_needed.app_error",
          "api.license.request-trial.can-start-trial.error",
          "api.license.request-trial.can-start-trial.not-allowed",
          "api.license.request-trial.bad-request"}
    [] OTHER -> {"ok"}

\* The handler goes from the tests to its license operation, or ends on the
\* way.
Validate(outcome) ==
  /\ req.at = "validate"
  /\ outcome \in ValidationOutcomes(req.handler)
  /\ req' = IF outcome = "ok"
            THEN [req EXCEPT !.at = "operation"]
            ELSE IF outcome = "form"
            THEN [req EXCEPT !.written = "400", !.at = "return"]
            ELSE [req EXCEPT !.Err = outcome, !.at = "return"]
  /\ UNCHANGED restrictSystemAdmin
  /\ UNCHANGED httpVars

\* The license operation a handler calls; requestTrialLicense calls one of
\* two, by trialRequest.IsLegacy().
LicenseOperation(h, legacy) ==
  CASE h = "addLicense" -> "SaveLicense"
    [] h = "removeLicense" -> "RemoveLicense"
    [] h = "requestTrialLicense" ->
         IF legacy THEN "RequestTrialLicense" ELSE "RequestTrialLicenseWithExtraFields"
    [] h = "requestRenewalLink" -> "GenerateLicenseRenewalLink"

\* What a license operation answers: nil, or an error; SaveLicense
\* distinguishes an expired and an invalid license.
OperationResults == {"ok", "ExpiredLicenseError", "InvalidLicenseError", "error"}

\* What addLicense logs when SaveLicense fails.
SaveFailureLog(result) ==
  CASE result = "ExpiredLicenseError" -> "failed - expired or non-started license"
    [] result = "InvalidLicenseError" -> "failed - invalid license"
    [] OTHER -> "failed - unable to save license"

\* The license operation is called.  Its error ends the handler with c.Err
\* set; after its success requestRenewalLink has more to test and the other
\* handlers report success.
CallLicenseOperation(legacy, result) ==
  /\ req.at = "operation"
  /\ LET op == LicenseOperation(req.handler, legacy)
         called == [req EXCEPT !.ops = Append(@, op)]
     IN req' = IF result # "ok"
               THEN [called EXCEPT
                       !.Err = result, !.at = "return",
                       !.log = IF req.handler = "addLicense"
                               THEN Append(@, SaveFailureLog(result))
                               ELSE @]
               ELSE IF req.handler = "requestRenewalLink"
               THEN [called EXCEPT !.at = "renewable"]
               ELSE [called EXCEPT !.at = "success"]
  /\ UNCHANGED restrictSystemAdmin
  /\ UNCHANGED httpVars

\* requestRenewalLink, lines 259-274: without c.App.Cloud(), or when the
\* license cannot be renewed on the portal, it ends with c.Err set.
CheckRenewable(outcome) ==
  /\ req.at = "renewable"
  /\ req' = IF outcome = "ok"
            THEN [req EXCEPT !.at = "success"]
            ELSE [req EXCEPT !.Err = outcome, !.at = "return"]
  /\ UNCHANGED restrictSystemAdmin
  /\ UNCHANGED httpVars

\* auditRec.Success(), c.LogAudit("success"), and the answer is written;
\* requestRenewalLink sets c.Err when writing it fails.
MarkSuccess(writeFailed) ==
  /\ req.at = "success"
  /\ req' = [req EXCEPT
               !.audit = "success",
               !.log = Append(@, "success"),
               !.written = IF writeFailed THEN @ ELSE "200",
               !.Err = IF writeFailed /\ req.handler = "requestRenewalLink"
                       THEN "api.license.request_renewal_link.app_error"
                       ELSE @,
               !.at = "return"]
  /\ UNCHANGED restrictSystemAdmin
  /\ UNCHANGED httpVars

\* The handler returns; the deferred c.LogAuditRec(auditRec) has run.
HandlerReturn ==
  /\ req.at = "return"
  /\ req' = NoRequest
  /\ UNCHANGED restrictSystemAdmin
  /\ UNCHANGED httpVars

InitLicenses ==
  /\ config = [EnableInsecureOutgoingConnections |-> Nil,
               AllowedUntrustedInternalConnections |-> Nil]
  /\ transport = NoTransport
  /\ pc = "idle"
  /\ mt = NoCall
  /\ dial = NoDial
  /\ ah = NoAllowHost
  /\ ai = NoAllowIP
  /\ allowedAtMake = Nil
  /\ restrictSystemAdmin \in BOOLEAN
  /\ req = NoRequest

NextLicenses ==
  \/ \E b \in BOOLEAN : ReplaceRestrictSystemAdmin(b)
  \/ \E h \in Handlers, p \in BOOLEAN : HandlerEnter(h, p)
  \/ CheckPermission
  \/ CheckRestrictSystemAdmin
  \/ \E o \in ValidationOutcomes(req.handler) : Validate(o)
  \/ \E legacy \in BOOLEAN, r \in OperationResults : CallLicenseOperation(legacy, r)
  \/ \E o \in {"ok", "api.license.upgrade_needed.app_error",
               "api.license.request_renewal_link.cannot_renew_on_cws"} :
       CheckRenewable(o)
  \/ \E f \in BOOLEAN : MarkSuccess(f)
  \/ HandlerReturn

SpecLicenses == InitLicenses /\ [][NextLicenses]_vars

(***************************************************************************)
(* What the properties are stated with                                     *)
(***************************************************************************)
Last(s) == s[Len(s)]

\* The fields of an allow-list string, as a set: the maximal runs of
\* characters none of which is whitespace or a comma.
FieldSet(s) ==
  {SubSeq(s, ij[1], ij[2]) :
     ij \in {x \in (1 .. Len(s)) \X (1 .. Len(s)) :
               /\ x[1] <= x[2]
               /\ \A k \in x[1] .. x[2] : ~(IsSpace(s[k]) \/ s[k] = ",")
               /\ (x[1] = 1 \/ IsSpace(s[x[1] - 1]) \/ s[x[1] - 1] = ",")
               /\ (x[2] = Len(s) \/ IsSpace(s[x[2] + 1]) \/ s[x[2] + 1] = ",")}}

\* Some CIDR entry of the allow-list setting p contains ip.
CIDRCovers(p, ip) ==
  /\ ~IsNil(p)
  /\ \E f \in FieldSet(Deref(p)) : ParseCIDR(f).ok /\ IPNetContains(ParseCIDR(f), ip)

\* The hostname entries of the allow-list setting p.
HostnameEntries(p) ==
  IF IsNil(p) THEN {} ELSE {f \in FieldSet(Deref(p)) : ~ParseCIDR(f).ok}

ReservedOrOwn(ip) == IsReservedIP(ip) \/ IsOwnIP(ip)

\* allowIP has been invoked on an address of an untrusted transport and has
\* returned; ai holds the invocation.
AllowIPReturned == pc = "ip_ret" /\ ~transport.trustURLs

\* The decision of the guard on ip under the allow-list setting p.
GuardSpec(ip, ownErr, p) ==
  IF ownErr THEN "errOwnIP"
  ELSE IF ~ReservedOrOwn(ip) \/ CIDRCovers(p, ip) THEN "nil"
  ELSE IF IsReservedIP(ip) THEN "errReserved"
  ELSE "errSelf"

\* The answer of the host check for host under the allow-list setting p.
HostSpec(p, host) ==
  IF ~IsNil(p) /\ host \in FieldSet(Deref(p)) THEN "true" ELSE "false"

\* The value of `insecure` under the flag setting p.
FlagOf(p) == ~IsNil(p) /\ Deref(p)

DialPCs == {"ah_test", "ah_deref", "ah_ret", "resolve", "ip_call", "ip_ret", "dial_done"}

(***************************************************************************)
(* C1  Untrusted transport: an address that is reserved or one of the      *)
(* host's own, and that no CIDR entry of the allow-list in force contains, *)
(* is denied by allowIP, whatever hostname entries the allow-list holds.   *)
(***************************************************************************)
C1_UncoveredInternalDenied ==
  (AllowIPReturned /\ ReservedOrOwn(ai.ip) /\ ~CIDRCovers(ai.cfg, ai.ip))
    => ai.ret # "nil"

\* An own, not reserved address was denied although the allow-list holds the
\* very hostname being dialed, and own-address detection worked.
C1_Witness ==
  /\ AllowIPReturned
  /\ ~ai.ownErr /\ IsOwnIP(ai.ip) /\ ~IsReservedIP(ai.ip)
  /\ dial.host \in HostnameEntries(ai.cfg)
  /\ ~CIDRCovers(ai.cfg, ai.ip)
  /\ ai.ret = "errSelf"

(***************************************************************************)
(* C2  Fail closed: whenever IsOwnIP returns an error, allowIP denies the  *)
(* address, be it public or contained in an allowed CIDR, and it does so   *)
(* before the allow-list is consulted.                                     *)
(***************************************************************************)
C2_OwnErrorDenies ==
  (AllowIPReturned /\ ai.ownErr) => (ai.ret = "errOwnIP" /\ ai.reads = <<>>)

\* Denied on the error although a CIDR of the allow-list in force contains
\* the address.
C2_Witness ==
  /\ AllowIPReturned /\ ai.ownErr
  /\ CIDRCovers(ai.cfg, ai.ip)
  /\ ai.ret = "errOwnIP"

(***************************************************************************)
(* C3  Untrusted transport, own-address detection succeeded: an address    *)
(* that is reserved or own and that some CIDR entry of the allow-list      *)
(* contains is allowed, wherever that entry stands in the list.            *)
(***************************************************************************)
C3_CoveredInternalAllowed ==
  (AllowIPReturned /\ ~ai.ownErr /\ ReservedOrOwn(ai.ip) /\ CIDRCovers(ai.cfg, ai.ip))
    => ai.ret = "nil"

\* A reserved address allowed by a CIDR entry that is not the first field
\* of the list (the first is not a CIDR).
C3_Witness ==
  /\ AllowIPReturned /\ ~ai.ownErr
  /\ IsReservedIP(ai.ip)
  /\ CIDRCovers(ai.cfg, ai.ip)
  /\ ~ParseCIDR(FieldsFunc(Deref(ai.cfg))[1]).ok
  /\ ai.ret = "nil"

(***************************************************************************)
(* C4  Untrusted transport, own-address detection succeeded: an address    *)
(* that is neither reserved nor own is allowed for every allow-list, nil   *)
(* and empty included, and the allow-list is not read for it.              *)
(***************************************************************************)
C4_PublicAllowed ==
  (AllowIPReturned /\ ~ai.ownErr /\ ~ReservedOrOwn(ai.ip))
    => (ai.ret = "nil" /\ ai.reads = <<>>)

\* A public address allowed while the allow-list setting is nil.
C4_Witness ==
  /\ AllowIPReturned /\ ~ai.ownErr /\ ~ReservedOrOwn(ai.ip)
  /\ IsNil(ai.cfg)
  /\ ai.ret = "nil"

(***************************************************************************)
(* C5  Host-level trust comes before any IP classification and             *)
(* short-circuits it: on an untrusted transport, a requested hostname that *)
(* is exactly an entry of the allow-list is accepted by allowHost, and the *)
(* attempt then connects without allowIP (hence IsOwnIP) being invoked,    *)
(* even to a reserved or own address that no allowed CIDR contains.        *)
(***************************************************************************)
C5_HostTrustShortCircuits ==
  /\ (pc = "ah_ret" /\ ~transport.trustURLs
        /\ ~IsNil(ah.cfg) /\ dial.host \in FieldSet(Deref(ah.cfg)))
       => ah.ret = "true"
  /\ (pc \in DialPCs /\ ah.ret = "true")
       => /\ ai = NoAllowIP
          /\ pc \in {"ah_ret", "resolve", "dial_done"}
          /\ pc = "dial_done" => dial.conn = [via |-> "host", ip |-> dial.ips[1]]

\* Connected on host trust to a reserved address that no CIDR of the
\* allow-list, then or now, contains.
C5_Witness ==
  /\ pc = "dial_done" /\ ~transport.trustURLs
  /\ ah.ret = "true" /\ dial.conn.via = "host"
  /\ IsReservedIP(dial.conn.ip)
  /\ ~CIDRCovers(config.AllowedUntrustedInternalConnections, dial.conn.ip)
  /\ ~CIDRCovers(allowedAtMake, dial.conn.ip)

(***************************************************************************)
(* C6  A transport made with trustURLs = true carries neither a host check *)
(* nor an IP check: an attempt through it connects to the resolved address *)
(* whatever it is, and neither allowHost nor allowIP runs, so the          *)
(* allow-list setting is not read.                                         *)
(***************************************************************************)
C6_TrustedHasNoChecks ==
  /\ (pc = "mt_done" /\ mt.res = "ok" /\ mt.trustURLs)
       => (transport.trustURLs /\ transport.allowHost = "nil" /\ transport.allowIP = "nil")
  /\ (pc \in DialPCs /\ transport.trustURLs)
       => /\ ah = NoAllowHost /\ ai = NoAllowIP
          /\ pc \in {"resolve", "dial_done"}
          /\ pc = "dial_done" => dial.conn = [via |-> "unchecked", ip |-> dial.ips[1]]

\* Connected to an address that is reserved and own while the allow-list
\* setting is nil.
C6_Witness ==
  /\ pc = "dial_done" /\ transport.trustURLs
  /\ dial.conn.via = "unchecked"
  /\ IsReservedIP(dial.conn.ip) /\ IsOwnIP(dial.conn.ip)
  /\ IsNil(config.AllowedUntrustedInternalConnections)

(***************************************************************************)
(* C7  As claimed: on an untrusted transport every connection is decided   *)
(* on the resolved addresses, so every connection made is to an address    *)
(* allowIP allowed.                                                        *)
(***************************************************************************)
C7_Original ==
  (pc = "dial_done" /\ ~transport.trustURLs /\ dial.conn.via \notin {"forbidden", "panic"})
    => dial.conn.via = "ip"

C7_State ==
  /\ pc = "idle" => (dial = NoDial /\ ah = NoAllowHost /\ ai = NoAllowIP)
  /\ pc \in {"ip_call", "ip_ret"}
       => /\ ~transport.trustURLs /\ ah.ret = "false"
          /\ dial.idx \in 1 .. Len(dial.ips)
          /\ dial.conn = NoConn
  /\ pc = "ip_ret"
       => /\ ai.ip = dial.ips[dial.idx]
          /\ ai.ret = GuardSpec(ai.ip, ai.ownErr, ai.cfg)
  /\ (pc = "dial_done" /\ ~transport.trustURLs /\ ah.ret = "false")
       => \/ dial.conn = [via |-> "ip", ip |-> dial.ips[dial.idx]]
          \/ dial.conn = [via |-> "forbidden", ip |-> 0] /\ dial.idx = Len(dial.ips)

C7_Step ==
  /\ (pc = "resolve" /\ pc' = "ip_call") => dial'.idx = 1
  /\ (pc = "ip_ret" /\ pc' = "ip_call")
       => (ai.ret # "nil" /\ dial'.idx = dial.idx + 1 /\ dial'.ips = dial.ips)
  /\ (pc = "ip_ret" /\ pc' = "dial_done")
       => /\ dial'.conn.via = "ip" <=> ai.ret = "nil"
          /\ dial'.conn.via = "ip" => dial'.conn.ip = ai.ip
          /\ dial'.idx = dial.idx

(***************************************************************************)
(* C7  Amended: on an untrusted transport, an attempt whose hostname       *)
(* allowHost did not accept is decided at dial time on the addresses       *)
(* resolved in that attempt: allowIP is invoked on them in order, under    *)
(* the configuration of that moment; the first address it allows is the    *)
(* one dialed; when it allows none the attempt ends without a connection;  *)
(* and nothing resolved or decided in one attempt is kept for the next.    *)
(***************************************************************************)
C7_DecidedAtDialTime == []C7_State /\ [][C7_Step]_vars

\* The first resolved address was denied, the second allowed and dialed.
C7_Witness ==
  /\ pc = "dial_done" /\ ~transport.trustURLs /\ ah.ret = "false"
  /\ dial.idx = 2
  /\ dial.conn = [via |-> "ip", ip |-> dial.ips[2]]
  /\ ReservedOrOwn(dial.ips[1])

(***************************************************************************)
(* C8  As claimed: the policy of a transport is the one captured by the    *)
(* MakeTransport call that returned it; allowHost and allowIP decide as    *)
(* the allow-list of that moment says, whatever replaced the configuration *)
(* since.                                                                  *)
(***************************************************************************)
C8_Original ==
  /\ AllowIPReturned => ai.ret = GuardSpec(ai.ip, ai.ownErr, allowedAtMake)
  /\ (pc = "ah_ret" /\ ah.ret # "panic") => ah.ret = HostSpec(allowedAtMake, dial.host)

C8_LiveDecisions ==
  /\ AllowIPReturned => ai.ret = GuardSpec(ai.ip, ai.ownErr, ai.cfg)
  /\ (pc = "ah_ret" /\ ah.ret # "panic") => ah.ret = HostSpec(ah.cfg, dial.host)

C8_TransportFixed ==
  (transport.made /\ transport' # transport) => (pc \in {"idle", "mt_deref"} /\ pc' = "mt_done")

(***************************************************************************)
(* C8  Amended: of the policy, only the insecure flag is captured by       *)
(* MakeTransport: a built transport (its flag and the checks it carries)   *)
(* changes only when MakeTransport builds the next one.  The allow-list is *)
(* not captured: every allowHost and allowIP decision of an already-built  *)
(* transport follows the allow-list of the configuration current when the  *)
(* decision reads it.                                                      *)
(***************************************************************************)
C8_FlagCapturedAllowListLive == []C8_LiveDecisions /\ [][C8_TransportFixed]_vars

\* allowIP decided otherwise than the allow-list of the time MakeTransport
\* returned the transport would have it.
C8_Witness ==
  /\ AllowIPReturned
  /\ ai.reads # <<>>
  /\ ai.ret # GuardSpec(ai.ip, ai.ownErr, allowedAtMake)

(***************************************************************************)
(* C9  As claimed: a call of MakeTransport, allowHost or allowIP during    *)
(* which the configuration is replaced completes, with the result it       *)
(* would give under one of the configurations it read.                     *)
(***************************************************************************)
C9_Original ==
  /\ pc = "mt_done"
       => /\ mt.res = "ok"
          /\ \E i \in 1 .. Len(mt.reads) : transport.insecure = FlagOf(mt.reads[i])
  /\ pc = "ah_ret"
       => /\ ah.ret # "panic"
          /\ \E i \in 1 .. Len(ah.reads) : ah.ret = HostSpec(ah.reads[i], dial.host)
  /\ pc = "ip_ret" => ai.ret = GuardSpec(ai.ip, ai.ownErr, ai.cfg)

C10_FlagRead ==
  (pc # "mt_done" /\ pc' = "mt_done" /\ mt'.res = "ok")
    => /\ transport'.made
       /\ transport'.insecure = FlagOf(config.EnableInsecureOutgoingConnections)

(***************************************************************************)
(* C10  The policy is read from the configuration source on every          *)
(* MakeTransport call and not kept in the service: the insecure flag of a  *)
(* transport is that of the configuration current when the call that built *)
(* it read it, and its allowIP decides by the allow-list of the            *)
(* configuration current at the decision.                                  *)
(***************************************************************************)
C10_ReadOnEveryCall ==
  /\ [][C10_FlagRead]_vars
  /\ [](AllowIPReturned => ai.ret = GuardSpec(ai.ip, ai.ownErr, ai.cfg))

\* A transport was built with a flag other than that of the transport built
\* before it.
C10_Witness ==
  /\ pc = "mt_done" /\ mt.res = "ok"
  /\ mt.prev.made
  /\ mt.prev.insecure # transport.insecure

(***************************************************************************)
(* C14  Own-address detection succeeded and allowIP denies: the denial is  *)
(* the reserved-range one whenever the address is reserved, also when it   *)
(* is one of the host's own as well; it is the self-address one only for   *)
(* an address that is own and not reserved.                                *)
(***************************************************************************)
C14_DenialReason ==
  (AllowIPReturned /\ ~ai.ownErr /\ ai.ret # "nil")
    => /\ IsReservedIP(ai.ip) => ai.ret = "errReserved"
       /\ ~IsReservedIP(ai.ip) => (ai.ret = "errSelf" /\ IsOwnIP(ai.ip))

\* An address that is reserved and own was denied as reserved.
C14_Witness ==
  /\ AllowIPReturned /\ ~ai.ownErr
  /\ IsReservedIP(ai.ip) /\ IsOwnIP(ai.ip)
  /\ ai.ret = "errReserved"

\* What an error of allowIP says the denial is for, read off its text.
ReasonNamed(e) ==
  CASE e.text = "IP %s is in a reserved range and not in AllowedUntrustedInternalConnections"
         -> "ReservedRange"
    [] e.text = "IP %s is a self-assigned IP and not in AllowedUntrustedInternalConnections"
         -> "SelfAddress"
    [] e.text = "unable to determine if IP is own IP: %w" -> "DetectionFailed"
    [] OTHER -> "None"

(***************************************************************************)
(* C15  As claimed: every denial of allowIP names the address it denies    *)
(* and says whether the denial is for a reserved range or for a self       *)
(* address, the denial made when IsOwnIP fails included.                   *)
(***************************************************************************)
C15_Original ==
  (AllowIPReturned /\ ai.ret # "nil")
    => /\ ai.err.ip = <<ai.ip>>
       /\ ReasonNamed(ai.err) \in {"ReservedRange", "SelfAddress"}

(***************************************************************************)
(* C15  Amended: a denial allowIP makes after IsOwnIP succeeded names the  *)
(* address it denies and says whether the denial is for a reserved range   *)
(* or for a self address.  The denial made when IsOwnIP fails names no     *)
(* address and neither reason: it says that the own-address test could not *)
(* be made and wraps the error of IsOwnIP.  An allowed address gets the    *)
(* nil error.                                                              *)
(***************************************************************************)
C15_DenialNamesAddressUnlessDetectionFailed ==
  AllowIPReturned
    => /\ (ai.ret # "nil" /\ ~ai.ownErr)
            => /\ ai.err.ip = <<ai.ip>>
               /\ ~ai.err.wraps
               /\ ReasonNamed(ai.err) =
                    (IF IsReservedIP(ai.ip) THEN "ReservedRange" ELSE "SelfAddress")
       /\ ai.ownErr
            => /\ ai.ret # "nil"
               /\ ai.err.ip = <<>>
               /\ ai.err.wraps
               /\ ReasonNamed(ai.err) = "DetectionFailed"
       /\ ai.ret = "nil" => ai.err = NoError

\* IsOwnIP failed for a reserved address: it is denied by an error that
\* names neither the address nor the reserved range.
C15_Witness ==
  /\ AllowIPReturned /\ ai.ownErr
  /\ IsReservedIP(ai.ip)
  /\ ai.ret # "nil"
  /\ ai.err.ip = <<>>
  /\ ReasonNamed(ai.err) = "DetectionFailed"

\* Where the fields of an allow-list string stand in it: the first and last
\* position of each maximal run of characters that are neither whitespace
\* nor a comma.
FieldRuns(s) ==
  {x \in (1 .. Len(s)) \X (1 .. Len(s)) :
     /\ x[1] <= x[2]
     /\ \A k \in x[1] .. x[2] : ~(IsSpace(s[k]) \/ s[k] = ",")
     /\ (x[1] = 1 \/ IsSpace(s[x[1] - 1]) \/ s[x[1] - 1] = ",")
     /\ (x[2] = Len(s) \/ IsSpace(s[x[2] + 1]) \/ s[x[2] + 1] = ",")}

\* The field at run x of s is a CIDR that contains ip.
RunCovers(s, x, ip) ==
  LET r == ParseCIDR(SubSeq(s, x[1], x[2])) IN r.ok /\ IPNetContains(r, ip)

(***************************************************************************)
(* C18  A field of the allow-list that does not parse as a CIDR fails      *)
(* closed: for a reserved or own address (own-address detection having     *)
(* succeeded), allowIP accepts only if some field parses as a CIDR and     *)
(* contains the address, so under a list none of whose fields parses every *)
(* such address is denied; and a field that parses and contains the        *)
(* address is honoured although a field that does not parse stands before  *)
(* it.                                                                     *)
(***************************************************************************)
C18_ParseFailureFailsClosed ==
  (AllowIPReturned /\ ~ai.ownErr /\ ReservedOrOwn(ai.ip))
    => LET s == SafeDereference(ai.cfg) IN
       /\ (\A x \in FieldRuns(s) : ~ParseCIDR(SubSeq(s, x[1], x[2])).ok)
            => ai.ret # "nil"
       /\ ai.ret = "nil" => \E x \in FieldRuns(s) : RunCovers(s, x, ai.ip)
       /\ (\E x, y \in FieldRuns(s) :
             /\ x[2] < y[1]
             /\ ~ParseCIDR(SubSeq(s, x[1], x[2])).ok
             /\ RunCovers(s, y, ai.ip))
            => ai.ret = "nil"

\* A reserved address was allowed by a CIDR field that follows a field
\* written like a CIDR that does not parse.
C18_Witness ==
  /\ AllowIPReturned /\ ~ai.ownErr /\ IsReservedIP(ai.ip)
  /\ ai.ret = "nil"
  /\ LET s == SafeDereference(ai.cfg) IN
     \E x, y \in FieldRuns(s) :
       /\ x[2] < y[1]
       /\ \E k \in x[1] .. x[2] : s[k] = "/"
       /\ ~ParseCIDR(SubSeq(s, x[1], x[2])).ok
       /\ RunCovers(s, y, ai.ip)

(***************************************************************************)
(* C17  allowHost and allowIP keep nothing between calls: what a call      *)
(* decides is fixed by the host or address it is given, the allow-list it  *)
(* reads and, for allowIP, the outcome of IsOwnIP (the host's own          *)
(* addresses being fixed), whatever calls and decisions came before it, in *)
(* the same attempt or in earlier ones; so a call repeated on the same     *)
(* host, address and policy decides the same.  Between attempts nothing of *)
(* a decision is left.                                                     *)
(***************************************************************************)
C17_DecisionDependsOnTripleOnly ==
  /\ AllowIPReturned
       => /\ ai.ret = GuardSpec(ai.ip, ai.ownErr, ai.cfg)
          /\ ai.err = ErrorOf(GuardSpec(ai.ip, ai.ownErr, ai.cfg), ai.ip)
  /\ (pc = "ah_ret" /\ ah.ret # "panic" /\ ah.cfg = ah.reads[1])
       => ah.ret = HostSpec(ah.cfg, dial.host)
  /\ pc \in {"idle", "mt_deref", "mt_done"} => (ah = NoAllowHost /\ ai = NoAllowIP)

\* allowIP allowed a reserved or own address on its allow-list right after
\* it had denied another address in the same attempt.
C17_Witness ==
  /\ AllowIPReturned /\ ~ai.ownErr
  /\ dial.idx = 2
  /\ ReservedOrOwn(dial.ips[1])
  /\ ReservedOrOwn(ai.ip)
  /\ ai.ret = "nil"

(***************************************************************************)
(* C19  As claimed: no replacement of the configuration between the nil    *)
(* test and the dereference of a setting makes MakeTransport or allowHost  *)
(* dereference nil: every call of either returns a value.                  *)
(***************************************************************************)
C19_Original ==
  /\ pc = "mt_done" => mt.res = "ok"
  /\ pc = "ah_ret" => ah.ret \in {"true", "false"}

C20_Step ==
  /\ (pc = "ip_call" /\ pc' = "ip_ret")
       => ai'.ret = GuardSpec(dial.ips[dial.idx], ai'.ownErr,
                              config.AllowedUntrustedInternalConnections)
  /\ (pc = "ah_test" /\ pc' = "ah_ret")
       => ah'.ret = HostSpec(config.AllowedUntrustedInternalConnections, dial.host)
  /\ (pc = "ah_deref" /\ pc' = "ah_ret" /\ ah'.ret # "panic")
       => ah'.ret = HostSpec(config.AllowedUntrustedInternalConnections, dial.host)
  /\ transport' # transport
       => /\ transport'.insecure = FlagOf(config.EnableInsecureOutgoingConnections)
          /\ transport'.allowHost = (IF mt'.trustURLs THEN "nil" ELSE "closure")
          /\ transport'.allowIP = (IF mt'.trustURLs THEN "nil" ELSE "closure")

(***************************************************************************)
(* C20  What allowHost and allowIP decide does not depend on               *)
(* EnableInsecureOutgoingConnections: each decision is fixed by the host   *)
(* or address, the outcome of IsOwnIP and the allow-list of the            *)
(* configuration current when the call reads it, so it is the same under   *)
(* two configurations that differ in the flag only, and the same whatever  *)
(* flag the transport was built with.  The flag goes to NewTransport and   *)
(* nowhere else: the transport built records it, and whether the checks    *)
(* are attached depends on trustURLs alone.                                *)
(***************************************************************************)
C20_FlagDoesNotDecide == [][C20_Step]_vars

\* On a transport built with insecure = true, under a configuration whose
\* flag is true, allowIP denied a reserved address.
C20_Witness ==
  /\ AllowIPReturned
  /\ transport.insecure
  /\ FlagOf(config.EnableInsecureOutgoingConnections)
  /\ ~ai.ownErr /\ IsReservedIP(ai.ip)
  /\ ai.ret = "errReserved"

(***************************************************************************)
(* C16  MakeClient(trustURLs) returns a client whose Transport is the      *)
(* transport MakeTransport built in that call for the same trustURLs       *)
(* (without checks when trustURLs is true, with both checks when it is     *)
(* false), and whose Timeout is the RequestTimeout of the service, for     *)
(* trustURLs true and for trustURLs false.                                 *)
(***************************************************************************)
C16_ClientOfMakeClient ==
  pc = "mc_done"
    => /\ mt.caller = "MakeClient" /\ mt.res = "ok"
       /\ mt.client.Transport = transport
       /\ transport.made
       /\ transport.trustURLs = mt.trustURLs
       /\ transport.insecure = FlagOf(Last(mt.reads))
       /\ transport.allowHost = (IF mt.trustURLs THEN "nil" ELSE "closure")
       /\ transport.allowIP = (IF mt.trustURLs THEN "nil" ELSE "closure")
       /\ mt.client.Timeout = RequestTimeout

\* MakeClient(true) is about to return a client that carries the timeout
\* and a transport without checks, the transport before it having had them.
C16_Witness ==
  /\ pc = "mc_done" /\ mt.trustURLs
  /\ mt.client.Transport.allowIP = "nil"
  /\ mt.client.Timeout = RequestTimeout
  /\ mt.prev.made /\ mt.prev.allowIP = "closure"

(***************************************************************************)
(* C11  The allow-list string is split at every whitespace character and   *)
(* every comma: the fields are exactly the maximal runs of other           *)
(* characters, in order, so none is empty and none holds a separator,      *)
(* however many separators stand together.  allowHost answers by these     *)
(* fields; under a nil or empty allow-list, or one of separators only, it  *)
(* answers false for every host and allowIP denies every reserved or own   *)
(* address.                                                                *)
(***************************************************************************)
C11_SplitAtSeparators ==
  LET s == SafeDereference(config.AllowedUntrustedInternalConnections)
      F == FieldsFunc(s)
  IN /\ \A i \in 1 .. Len(F) :
          /\ F[i] # <<>>
          /\ \A k \in 1 .. Len(F[i]) : ~(IsSpace(F[i][k]) \/ F[i][k] = ",")
     /\ {F[i] : i \in 1 .. Len(F)} = FieldSet(s)
     /\ Len(F) = Cardinality(FieldRuns(s))
     /\ \A i, j \in 1 .. Len(F) :
          i < j => \E x, y \in FieldRuns(s) :
                     /\ x[2] < y[1]
                     /\ F[i] = SubSeq(s, x[1], x[2])
                     /\ F[j] = SubSeq(s, y[1], y[2])
     /\ pc = "ah_ret" => ah.ret = HostSpec(ah.cfg, dial.host)
     /\ (pc = "ah_ret" /\ FieldRuns(SafeDereference(ah.cfg)) = {}) => ah.ret = "false"
     /\ (AllowIPReturned /\ ReservedOrOwn(ai.ip)
           /\ FieldRuns(SafeDereference(ai.cfg)) = {})
          => ai.ret # "nil"

\* allowHost accepted a host that stands in the list before a tab directly
\* followed by a comma.
C11_Witness ==
  /\ pc = "ah_ret" /\ ah.ret = "true"
  /\ LET s == Deref(ah.cfg) IN
     \E k \in 1 .. Len(s) - 1 :
       /\ s[k] = "\t" /\ s[k + 1] = ","
       /\ SubSeq(s, 1, k - 1) = dial.host

(***************************************************************************)
(* C12  As claimed: allowHost(h) is true only when h equals a field of the *)
(* allow-list that is not a valid CIDR.                                    *)
(***************************************************************************)
C12_Original ==
  (pc = "ah_ret" /\ ah.ret = "true") => dial.host \in HostnameEntries(ah.cfg)

(***************************************************************************)
(* C12  Amended: a field that does not parse as a CIDR is a hostname entry *)
(* only: it never makes allowIP accept an address.  A field that parses as *)
(* a CIDR is a CIDR entry for allowIP, and allowHost compares it like any  *)
(* other field: allowHost(h) is true exactly when h equals some field,     *)
(* valid CIDR or not.                                                      *)
(***************************************************************************)
C12_EveryFieldIsAHostEntry ==
  /\ pc = "ah_ret"
       => (ah.ret = "true"
             <=> /\ ~IsNil(ah.cfg)
                 /\ \E x \in FieldRuns(Deref(ah.cfg)) :
                      SubSeq(Deref(ah.cfg), x[1], x[2]) = dial.host)
  /\ (AllowIPReturned /\ ~ai.ownErr /\ ReservedOrOwn(ai.ip))
       => (ai.ret = "nil"
             <=> \E x \in FieldRuns(SafeDereference(ai.cfg)) :
                   RunCovers(SafeDereference(ai.cfg), x, ai.ip))

\* allowHost accepted a host that equals a field which is a valid CIDR.
C12_Witness ==
  /\ pc = "ah_ret" /\ ah.ret = "true"
  /\ ParseCIDR(dial.host).ok
  /\ dial.host \notin HostnameEntries(ah.cfg)

(***************************************************************************)
(* C13  allowHost compares the host with whole fields, for equality and    *)
(* with letter case: it is false for a host that equals no field, be it a  *)
(* field in another case, a part of a field, a field with more around it,  *)
(* or what a field read as a wildcard pattern would match.                 *)
(***************************************************************************)
C13_ExactCaseSensitiveMatch ==
  (pc = "ah_ret" /\ (IsNil(ah.cfg) \/ dial.host \notin FieldSet(Deref(ah.cfg))))
    => ah.ret = "false"

\* allowHost rejected "a" under a list that holds "A" and a field with the
\* wildcard character.
C13_Witness ==
  /\ pc = "ah_ret" /\ ah.ret = "false"
  /\ ~IsNil(ah.cfg)
  /\ dial.host = <<"a">>
  /\ <<"A">> \in FieldSet(Deref(ah.cfg))
  /\ \E f \in FieldSet(Deref(ah.cfg)) : \E k \in 1 .. Len(f) : f[k] = "*"

\* The license operations, by handler.
OperationsOf(h) ==
  CASE h = "addLicense" -> {"SaveLicense"}
    [] h = "removeLicense" -> {"RemoveLicense"}
    [] h = "requestTrialLicense" ->
         {"RequestTrialLicense", "RequestTrialLicenseWithExtraFields"}
    [] h = "requestRenewalLink" -> {"GenerateLicenseRenewalLink"}
    [] OTHER -> {}

\* The running handler found the session to hold the permission and then
\* RestrictSystemAdmin to be false.
GatePassed == req.gate.permission = "yes" /\ req.gate.restricted = "no"

C21_State ==
  /\ req.ops # <<>>
       => /\ GatePassed
          /\ req.hasPermission
          /\ Len(req.ops) = 1
          /\ req.ops[1] \in OperationsOf(req.handler)
  /\ req.audit = "success" => (GatePassed /\ req.ops # <<>>)
  /\ (req.at = "return" /\ ~GatePassed)
       => /\ req.Err \in {PermissionError, "api.restricted_system_admin"}
          /\ req.ops = <<>>
          /\ req.audit = "fail"
          /\ req.log = <<"attempt">>
          /\ req.written = ""
  /\ (req.at = "return" /\ req.gate.permission = "no")
       => (~req.hasPermission /\ req.Err = PermissionError)
  /\ (req.at = "return" /\ req.gate.restricted = "yes")
       => req.Err = "api.restricted_system_admin"
  /\ req.at \in {"validate", "operation", "renewable", "success"} => GatePassed

C21_Step ==
  /\ req'.gate.permission # req.gate.permission
       => \/ req'.gate.permission = (IF req.hasPermission THEN "yes" ELSE "no")
          \/ req' = NoRequest
  /\ req'.gate.restricted # req.gate.restricted
       => \/ /\ req.gate.permission = "yes"
             /\ req'.gate.restricted = (IF restrictSystemAdmin THEN "yes" ELSE "no")
          \/ req' = NoRequest
  /\ req'.ops # req.ops
       => \/ req.at = "operation" /\ GatePassed
          \/ req' = NoRequest
  /\ (req.Err # "" /\ req' # NoRequest) => req'.Err = req.Err
  /\ (req.audit = "fail" /\ req'.audit = "success") => req.at = "success"

(***************************************************************************)
(* C21  In addLicense, removeLicense, requestTrialLicense and              *)
(* requestRenewalLink the license operation of the handler is called only  *)
(* after the handler found the session to hold                             *)
(* PermissionManageLicenseInformation and then read RestrictSystemAdmin as *)
(* false from the configuration; a handler that found otherwise returns    *)
(* with c.Err set (the permission error or api.restricted_system_admin),   *)
(* no license operation called and nothing written, and its audit record,  *)
(* made as a failure, is never marked as success.                          *)
(***************************************************************************)
C21_LicenseGate == []C21_State /\ [][C21_Step]_vars

\* removeLicense, for a session that holds the permission, returns refused
\* under RestrictSystemAdmin; the configuration replaced since would let it
\* through.
C21_Witness ==
  /\ req.handler = "removeLicense" /\ req.at = "return"
  /\ req.hasPermission
  /\ req.gate.restricted = "yes"
  /\ ~restrictSystemAdmin
  /\ req.Err = "api.restricted_system_admin"
  /\ req.ops = <<>> /\ req.audit = "fail"

====
